---- MODULE Spec2Model ----
(***************************************************************************)
(* A model of zkteco_all.py: the SQLite store (init_database,              *)
(* save_attendance_to_db, save_users_to_db), the two fleet loops          *)
(* (sync_all_devices_users, sync_all_devices_attendance), the live capture *)
(* (live_capture_interactive), the name index and the main program with    *)
(* its menu; and of the bulk device export of simple.py                    *)
(* (fetch_device_snapshot, export_devices_to_csv).                         *)
(*                                                                         *)
(* Python values are modelled as follows.                                  *)
(*   - a str that the code trims or uses as a dictionary key is a sequence *)
(*     of one-character strings, so that strip() is computed;              *)
(*   - a value handed to int() is a token: "0", "1", "2" are the ints      *)
(*     0, 1, 2, "abc" is a non-numeric str (ValueError), "inf" is          *)
(*     float('inf') (OverflowError, which the code does not catch);        *)
(*   - an object is a record with a field "has", the set of attributes     *)
(*     the object carries (hasattr / getattr).                             *)
(***************************************************************************)
EXTENDS Integers, Sequences, FiniteSets, TLC

\* ------------------------------------------------------------------ bounds

\* Number of raw records the operator hands to the direct save calls of one
\* run, over all the calls (a call takes a list as long as what is left).
\* Inside an interactive session the devices a fleet sync is given, the
\* records it fetches and the stream elements and typed lines of a live
\* capture count against it as well.
MaxRecords == 3
\* Number of store writes (executemany) that are made to fail in one run.
MaxFaults == 1
\* Longest device list of a fleet sync.
MaxDevices == 2
\* The chunk size of save_attendance_to_db (1000 in the source), scaled down
\* so that a list of three records spans a full chunk and a partial one.
ChunkSize == 2

\* ------------------------------------------------------------ python values

AttAttrs == {"uid", "user_id", "timestamp", "status", "punch"}

\* int(x) for the tokens that are ints.
IntLiteral == ("0" :> 0) @@ ("1" :> 1) @@ ("2" :> 2)

\* int(x) raises something other than ValueError / TypeError.
IntEscapes(tok) == tok = "inf"

\* try: v = int(x) / except (ValueError, TypeError): v = 0
IntOrZero(tok) == IF tok \in DOMAIN IntLiteral THEN IntLiteral[tok] ELSE 0

\* str(n) for the small ints the model stores.
DecStr(n) == <<CASE n = 0 -> "0" [] n = 1 -> "1" [] n = 2 -> "2" [] OTHER -> "?">>

RECURSIVE LStrip(_)
LStrip(s) == IF s # <<>> /\ Head(s) = " " THEN LStrip(Tail(s)) ELSE s

RECURSIVE RStrip(_)
RStrip(s) ==
    IF s # <<>> /\ s[Len(s)] = " " THEN RStrip(SubSeq(s, 1, Len(s) - 1)) ELSE s

\* str.strip()
Strip(s) == RStrip(LStrip(s))

\* str(user.uid) for the uid values of the raw user records
StrOfUid(tok) ==
    IF tok \in DOMAIN IntLiteral THEN DecStr(IntLiteral[tok])
    ELSE IF tok = "None" THEN <<"N", "o", "n", "e">>
    ELSE <<"a", "b", "c">>

\* getattr(obj, name, default)
GetAttr(obj, name, default) == IF name \in obj.has THEN obj[name] ELSE default

\* x or ""   (None and "" are both falsy)
OrEmpty(x) == IF x = "None" THEN "" ELSE x

\* dict.get(key, "")
DictGet(d, key) == IF key \in DOMAIN d THEN d[key] ELSE ""

\* --------------------------------------------------------------- the inputs

DeviceIps == {"10.0.0.5", "10.0.0.6"}

\* str(datetime) of the two punch times the devices report.
T1 == <<"T", "1">>
T2 == <<"T", "2">>

\* Raw attendance records as a device hands them over.
AttOk == [has |-> AttAttrs, uid |-> "1", user_id |-> <<"a">>,
          timestamp |-> T1, status |-> "1", punch |-> "0"]
\* the key of AttOk once trimmed, other uid, status and punch
AttSameKey == [has |-> AttAttrs, uid |-> "2", user_id |-> <<" ", "a">>,
               timestamp |-> T1, status |-> "0", punch |-> "1"]
\* uid and status are not numbers, punch is missing
AttMalformed == [has |-> AttAttrs \ {"punch"}, uid |-> "abc", user_id |-> <<"b">>,
                 timestamp |-> T2, status |-> "abc", punch |-> "0"]
AttNoUserId == [has |-> AttAttrs \ {"user_id"}, uid |-> "1", user_id |-> <<>>,
                timestamp |-> T2, status |-> "0", punch |-> "0"]
AttBlankUserId == [has |-> AttAttrs, uid |-> "2", user_id |-> <<" ">>,
                   timestamp |-> T2, status |-> "0", punch |-> "0"]

\* a blank user_id on a record whose uid int() cannot convert
AttBlankOverflow == [has |-> AttAttrs, uid |-> "inf", user_id |-> <<" ">>,
                     timestamp |-> T2, status |-> "0", punch |-> "0"]

RawAtts == {AttOk, AttSameKey, AttMalformed, AttNoUserId, AttBlankUserId,
            AttBlankOverflow}

UserAttrs == {"uid", "name", "privilege", "password", "group_id", "user_id", "card"}

\* Raw user records. privilege 14 is const.USER_ADMIN of the zk library.
UserAnn == [has |-> UserAttrs, uid |-> "1", name |-> "Ann", privilege |-> 14,
            password |-> "", group_id |-> "", user_id |-> <<"a">>, card |-> "0"]
\* the uid of UserAnn with every other field changed
UserAnnNew == [has |-> UserAttrs, uid |-> "1", name |-> "Bob", privilege |-> 0,
               password |-> "pw", group_id |-> "7", user_id |-> <<"b">>, card |-> "12"]
UserNoName == [has |-> UserAttrs \ {"card"}, uid |-> "2", name |-> "None", privilege |-> 0,
               password |-> "None", group_id |-> "None", user_id |-> <<"1">>, card |-> "0"]
UserBadUid == [has |-> UserAttrs, uid |-> "abc", name |-> "Cy", privilege |-> 0,
               password |-> "", group_id |-> "", user_id |-> <<>>, card |-> "0"]

\* a record whose uid is None
UserNullUid == [has |-> UserAttrs, uid |-> "None", name |-> "Dee", privilege |-> 0,
                password |-> "", group_id |-> "", user_id |-> <<"d">>, card |-> "0"]

RawUsers == {UserAnn, UserAnnNew, UserNoName, UserBadUid, UserNullUid}

SeqsUpTo(S, n) == UNION {[1..k -> S] : k \in 0..n}

\* ---------------------------------------------------------------- the store

\* The two tables of init_database. The surrogate id and the imported_at /
\* synced_at defaults, which no operation of the program reads, are left out.
\* A row of attendance: [device_ip, uid, user_id, name, timestamp, status, punch].
\* A row of users: [device_ip, uid, name, privilege, password, group_id, user_id, card].
\* Rows of users that are equal in every column differ in the surrogate id
\* only: field copy of a row tells which of them it is (1 for the first).

\* UNIQUE(device_ip, user_id, timestamp)
AttKey(r) == <<r.device_ip, r.user_id, r.timestamp>>

\* Mutant: UNIQUE(uid), the device is not part of the key.
UserKeyUidOnly(r) == <<r.uid>>

\* UNIQUE(device_ip, uid)
UserKey(r) == <<r.device_ip, r.uid>>

\* Mutant: a plain INSERT on a table without the UNIQUE constraint.
InsertPlain(rows, r) == rows \cup {r}

\* Mutant: INSERT OR REPLACE on attendance, the newer row wins.
InsertAttReplacing(rows, r) == {q \in rows : AttKey(q) # AttKey(r)} \cup {r}

\* INSERT OR IGNORE INTO attendance: a row whose key is taken is dropped
InsertOrIgnore(rows, r) ==
    IF \E q \in rows : AttKey(q) = AttKey(r) THEN rows ELSE rows \cup {r}

\* The rows of users that equal r in every column the program writes.
EqualRows(rows, r) == {q \in rows : [q EXCEPT !.copy = 1] = [r EXCEPT !.copy = 1]}

\* INSERT OR REPLACE INTO users: the row holding the key is deleted first.
\* UNIQUE(device_ip, uid) takes NULLs as distinct and column uid is nullable:
\* a row with uid None conflicts with no row and is added to those there are.
InsertOrReplace(rows, r) ==
    IF r.uid = "None"
    THEN rows \cup {[r EXCEPT !.copy = Cardinality(EqualRows(rows, r)) + 1]}
    ELSE {q \in rows : UserKey(q) # UserKey(r)} \cup {r}

\* cursor.executemany(INSERT OR IGNORE ...) over a chunk, row by row
RECURSIVE ExecuteManyAtt(_, _)
ExecuteManyAtt(rows, chunk) ==
    IF chunk = <<>> THEN rows
    ELSE ExecuteManyAtt(InsertOrIgnore(rows, Head(chunk)), Tail(chunk))

\* cursor.executemany(INSERT OR REPLACE ...) over the batch, row by row
RECURSIVE ExecuteManyUsers(_, _)
ExecuteManyUsers(rows, chunk) ==
    IF chunk = <<>> THEN rows
    ELSE ExecuteManyUsers(InsertOrReplace(rows, Head(chunk)), Tail(chunk))

\* ------------------------------------------------------------ normalisation

\* Mutant: the user_id key is tried first.
ResolveUserIdFirst(udict, uid, user_id) ==
    IF DictGet(udict, user_id) # "" THEN DictGet(udict, user_id)
    ELSE DictGet(udict, DecStr(uid))

\* users_dict.get(str(uid), "") or users_dict.get(user_id, "")
ResolveName(udict, uid, user_id) ==
    IF DictGet(udict, DecStr(uid)) # "" THEN DictGet(udict, DecStr(uid))
    ELSE DictGet(udict, user_id)

\* The body of the loop of save_attendance_to_db up to batch.append: the
\* record is skipped, raises (counted as a record error) or yields a row.
AttNormalize(att, ip, udict) ==
    IF ~({"user_id", "timestamp"} \subseteq att.has) THEN [kind |-> "skip"]
    ELSE IF \E f \in {"uid", "status", "punch"} : IntEscapes(GetAttr(att, f, "0"))
    THEN [kind |-> "error"]
    ELSE IF Strip(att.user_id) = <<>> THEN [kind |-> "skip"]
    ELSE [kind |-> "row",
          row |-> [device_ip |-> ip,
                   uid |-> IntOrZero(GetAttr(att, "uid", "0")),
                   user_id |-> Strip(att.user_id),
                   name |-> ResolveName(udict, IntOrZero(GetAttr(att, "uid", "0")),
                                        Strip(att.user_id)),
                   timestamp |-> Strip(att.timestamp),
                   status |-> IntOrZero(GetAttr(att, "status", "0")),
                   punch |-> IntOrZero(GetAttr(att, "punch", "0"))]]

\* "Admin" if user.privilege == const.USER_ADMIN else "User"
USER_ADMIN == 14
\* Mutant: every raw value from const.USER_ADMIN up is an Admin.
PrivilegeAtLeast(user) == IF user.privilege >= USER_ADMIN THEN "Admin" ELSE "User"

\* "Admin" if user.privilege == const.USER_ADMIN else "User"
PrivilegeOf(user) == IF user.privilege = USER_ADMIN THEN "Admin" ELSE "User"

\* str(user.card) if hasattr(user, 'card') and user.card else ""
CardOf(user) == IF "card" \in user.has /\ user.card # "0" THEN user.card ELSE ""

\* The body of the loop of save_users_to_db: a record that lacks an attribute
\* the loop reads raises and is dropped (except Exception: continue).
UserRaises(user) ==
    ~({"privilege", "uid", "name", "password", "group_id", "user_id"} \subseteq user.has)

UserRow(user, ip) ==
    [device_ip |-> ip, uid |-> user.uid, name |-> OrEmpty(user.name),
     privilege |-> PrivilegeOf(user), password |-> OrEmpty(user.password),
     group_id |-> OrEmpty(user.group_id), user_id |-> user.user_id,
     card |-> CardOf(user), copy |-> 1]

RECURSIVE UserBatch(_, _)
UserBatch(users, ip) ==
    IF users = <<>> THEN <<>>
    ELSE IF UserRaises(Head(users)) THEN UserBatch(Tail(users), ip)
    ELSE <<UserRow(Head(users), ip)>> \o UserBatch(Tail(users), ip)

\* users_dict[str(user.uid)] = user.name or ""; users_dict[user.user_id] = ...
RECURSIVE BuildUsersDict(_, _)
BuildUsersDict(users, d) ==
    IF users = <<>> THEN d
    ELSE LET u == Head(users)
             d1 == (StrOfUid(u.uid) :> OrEmpty(u.name)) @@ d
             d2 == (u.user_id :> OrEmpty(u.name)) @@ d1
         IN  BuildUsersDict(Tail(users), d2)

EmptyDict == [k \in {} |-> ""]

\* ---------------------------------------------------------------- the state

VARIABLES
    attRows,        \* table attendance
    userRows,       \* table users
    pc,             \* where save_attendance_to_db stands: "idle", "att_loop",
                    \* "interrupted" (the process was stopped in a chunk write)
    attendances,    \* its arguments (kept after the return: the last call's)
    device_ip,
    users_dict,
    idx,            \* 1-based position of the loop over attendances
    batch,          \* rows normalised and not yet written
    inserted,       \* the three tallies of the summary
    errors,
    skipped,
    synchronous,    \* PRAGMA synchronous of the open connection, "closed" if none
    used,           \* raw records handed to the direct save calls so far, and
                    \* what a session has spent on options 9, 11 and 12
    faults,         \* store writes that failed so far
    ev,             \* the last step taken and the chunk it handed to the store
    base,           \* table attendance when the last attendance save began
    repeat,         \* that save got the list and device of a save before it
                    \* that had ended without a failed write
    trace,          \* what the last attendance save did on its connection:
                    \* "OFF", "write", "commit", "FULL", "close"
    fpc,            \* where the fleet sync stands: "none", "device", "saving",
                    \* "release", "done", "escaped" (an exception left it)
    kind,           \* "users" or "attendance": which of the two fleet syncs
    devices,        \* its device list
    didx,           \* 1-based position of its loop over devices
    total,          \* total_users / total_records
    success_count,
    failed_devices,
    out,            \* per device: the device calls made, the call that raised
                    \* and the number of records fetched (-1: no fetch)
    lpc,            \* where live_capture_interactive stands: "none", "capture",
                    \* "returned" (the total was printed), "failed"
    platform,       \* sys.platform as the capture reads it: "posix" or "win32"
                    \* ("unread" in a run of the menu that has not captured)
    tty,            \* keys typed and not yet read from the terminal
    stdinbuf,       \* characters sys.stdin has read from it and not handed out
    captured_events,
    counter,
    shown,          \* the rows printed
    pulled,         \* the elements the device stream has yielded
    polls,          \* polls of the keyboard made
    lend,           \* how the capture ended: "none", "quit", "exhausted",
                    \* "interrupt", "error"
    report,         \* the total printed at the end, -1 while none is
    typed,          \* bursts of keys typed during the capture
    rusers,         \* the user list the name index was last built from
    resolved,       \* the last look-up in the name index and its result
    spc,            \* where the main program stands: "off", "connect", "menu"
    conn_ip,        \* the device_ip of the menu loop, "" while it is not running
    session_users,  \* its user list (users)
    device_users,   \* the user list the device of the session holds
    conn,           \* its session with the device: "None", "open" (connected),
                    \* "disabled" (connected, the device disabled by the
                    \* program), "left_disabled" (disconnected, the device
                    \* still disabled), "released" (enabled and disconnected)
    classified,     \* the last user record a row was built from, and the row
    epc,            \* where export_devices_to_csv of simple.py stands: "none",
                    \* "writing", "exported", "raised" (an exception left it)
    export_devices, \* its device entries
    csv_rows,       \* the rows written after the header
    export_out      \* per device entry attempted: the device calls that raised

storeVars == <<attRows, userRows>>
frameVars == <<pc, attendances, device_ip, users_dict, idx, batch, inserted, errors,
               skipped, synchronous>>
ghostVars == <<used, faults, ev, base, repeat, trace>>
fleetVars == <<fpc, kind, devices, didx, total, success_count, failed_devices, out>>
liveVars == <<lpc, platform, tty, stdinbuf, captured_events, counter, shown, pulled,
              polls, lend, report, typed>>
indexVars == <<rusers, resolved>>
sessionVars == <<spc, conn_ip, session_users, device_users, conn>>
classVars == <<classified>>
exportVars == <<epc, export_devices, csv_rows, export_out>>

NoEvent == [kind |-> "none", chunk |-> <<>>, before |-> {}]

\* init_database on a fresh file: both tables exist and are empty
InitStore ==
    /\ attRows = {}
    /\ userRows = {}
    /\ pc = "idle"
    /\ attendances = <<>>
    /\ device_ip = ""
    /\ users_dict = EmptyDict
    /\ idx = 1
    /\ batch = <<>>
    /\ inserted = 0
    /\ errors = 0
    /\ skipped = 0
    /\ synchronous = "closed"
    /\ used = 0
    /\ faults = 0
    /\ ev = NoEvent
    /\ base = {}
    /\ repeat = FALSE
    /\ trace = <<>>
    /\ fpc = "none"
    /\ kind = "users"
    /\ devices = <<>>
    /\ didx = 1
    /\ total = 0
    /\ success_count = 0
    /\ failed_devices = <<>>
    /\ out = <<>>

\* No live capture has been started.
InitLive ==
    /\ lpc = "none"
    /\ platform = "posix"
    /\ tty = <<>>
    /\ stdinbuf = <<>>
    /\ captured_events = 0
    /\ counter = 0
    /\ shown = <<>>
    /\ pulled = <<>>
    /\ polls = 0
    /\ lend = "none"
    /\ report = -1
    /\ typed = 0

\* ------------------------------------------------ save_attendance_to_db

\* The records of a list whose normalisation raises.
RecordErrors(atts) ==
    Cardinality({i \in 1..Len(atts) : AttNormalize(atts[i], "", EmptyDict).kind = "error"})

\* The call and the lines before the loop. An empty list returns at once.
BeginSaveAtt(atts, ip, udict) ==
    IF atts = <<>>
    THEN UNCHANGED <<storeVars, frameVars, faults, ev, base, repeat, trace>>
    ELSE /\ pc' = "att_loop"
         /\ attendances' = atts
         /\ device_ip' = ip
         /\ users_dict' = udict
         /\ idx' = 1
         /\ batch' = <<>>
         /\ inserted' = 0
         /\ errors' = 0
         /\ skipped' = 0
         /\ synchronous' = "OFF"
         /\ ev' = [kind |-> "start", chunk |-> <<>>, before |-> attRows]
         /\ base' = attRows
         /\ trace' = <<"OFF">>
         /\ repeat' = (/\ atts = attendances
                        /\ ip = device_ip
                        /\ errors = RecordErrors(attendances))
         /\ UNCHANGED <<storeVars, faults>>

\* Mutant: a failed write resets the inserted tally and counts one error.
WriteChunkLosingCount(chunk) ==
    \/ /\ attRows' = ExecuteManyAtt(attRows, chunk)
       /\ inserted' = inserted + Len(chunk)
       /\ ev' = [kind |-> "write_ok", chunk |-> chunk, before |-> attRows]
       /\ UNCHANGED <<errors, faults>>
    \/ /\ faults < MaxFaults
       /\ attRows' = attRows
       /\ errors' = errors + 1
       /\ inserted' = 0
       /\ faults' = faults + 1
       /\ ev' = [kind |-> "write_failed", chunk |-> chunk, before |-> attRows]

\* Mutant: a plain INSERT, which raises on the first row whose key is taken;
\* the rows before it stay and the chunk is counted as errors.
WriteChunkAbortOnConflict(chunk) ==
    LET clash == {i \in 1..Len(chunk) :
                     \E q \in ExecuteManyAtt(attRows, SubSeq(chunk, 1, i - 1)) :
                         AttKey(q) = AttKey(chunk[i])}
        first == CHOOSE i \in clash : \A j \in clash : i <= j
    IN  IF clash = {}
        THEN /\ attRows' = ExecuteManyAtt(attRows, chunk)
             /\ inserted' = inserted + Len(chunk)
             /\ ev' = [kind |-> "write_ok", chunk |-> chunk, before |-> attRows]
             /\ UNCHANGED <<errors, faults>>
        ELSE /\ attRows' = ExecuteManyAtt(attRows, SubSeq(chunk, 1, first - 1))
             /\ errors' = errors + Len(chunk)
             /\ ev' = [kind |-> "write_failed", chunk |-> chunk, before |-> attRows]
             /\ UNCHANGED <<inserted, faults>>

\* Mutant: a failed write counts one error for the whole chunk.
WriteChunkOneErrorPerChunk(chunk) ==
    \/ /\ attRows' = ExecuteManyAtt(attRows, chunk)
       /\ inserted' = inserted + Len(chunk)
       /\ ev' = [kind |-> "write_ok", chunk |-> chunk, before |-> attRows]
       /\ UNCHANGED <<errors, faults>>
    \/ /\ faults < MaxFaults
       /\ \E k \in 0..(Len(chunk) - 1) :
            attRows' = ExecuteManyAtt(attRows, SubSeq(chunk, 1, k))
       /\ errors' = errors + 1
       /\ faults' = faults + 1
       /\ ev' = [kind |-> "write_failed", chunk |-> chunk, before |-> attRows]
       /\ UNCHANGED inserted

\* cursor.executemany on a chunk inside try/except: either every row is
\* applied and the chunk is counted as inserted, or the statement raises at
\* row k+1, the k rows before it stay (the connection is in autocommit mode)
\* and the whole chunk is counted as errors.
WriteChunk(chunk) ==
    \/ /\ attRows' = ExecuteManyAtt(attRows, chunk)
       /\ inserted' = inserted + Len(chunk)
       /\ ev' = [kind |-> "write_ok", chunk |-> chunk, before |-> attRows]
       /\ UNCHANGED <<errors, faults>>
    \/ /\ faults < MaxFaults
       /\ \E k \in 0..(Len(chunk) - 1) :
            attRows' = ExecuteManyAtt(attRows, SubSeq(chunk, 1, k))
       /\ errors' = errors + Len(chunk)
       /\ faults' = faults + 1
       /\ ev' = [kind |-> "write_failed", chunk |-> chunk, before |-> attRows]
       /\ UNCHANGED inserted

\* What a chunk write leaves on the connection: the statement only.
AfterChunk == <<"write">>

\* Mutant: the connection is closed without restoring synchronous.
CloseWithoutRestore == <<"commit", "close">>

\* db_conn.commit(); PRAGMA synchronous = FULL; db_conn.close()
CloseSequence == <<"commit", "FULL", "close">>

\* Mutant: every row is written as soon as it is normalised.
ChunkFullAtOne(b) == Len(b) >= 1

\* if len(batch) >= 1000
ChunkFull(b) == Len(b) >= ChunkSize

\* One iteration of the loop over attendances.
AttRecord ==
    /\ UNCHANGED <<liveVars, indexVars, sessionVars, classVars, exportVars>>
    /\ pc = "att_loop"
    /\ idx <= Len(attendances)
    /\ idx' = idx + 1
    /\ LET n == AttNormalize(attendances[idx], device_ip, users_dict) IN
         CASE n.kind = "skip" ->
                /\ skipped' = skipped + 1
                /\ ev' = [kind |-> "skip", chunk |-> <<>>, before |-> attRows]
                /\ UNCHANGED <<attRows, batch, inserted, errors, faults, trace>>
           [] n.kind = "error" ->
                /\ errors' = errors + 1
                /\ ev' = [kind |-> "record_error", chunk |-> <<>>, before |-> attRows]
                /\ UNCHANGED <<attRows, batch, inserted, skipped, faults, trace>>
           [] n.kind = "row" ->
                IF ChunkFull(Append(batch, n.row))
                THEN /\ WriteChunk(Append(batch, n.row))
                     /\ batch' = <<>>
                     /\ trace' = trace \o AfterChunk
                     /\ UNCHANGED skipped
                ELSE /\ batch' = Append(batch, n.row)
                     /\ ev' = [kind |-> "append", chunk |-> <<>>, before |-> attRows]
                     /\ UNCHANGED <<attRows, inserted, errors, skipped, faults, trace>>
    /\ UNCHANGED <<userRows, pc, attendances, device_ip, users_dict, synchronous,
                   used, base, repeat, fleetVars>>

\* After the loop: the rest of the batch is written, then commit, PRAGMA
\* synchronous = FULL, close and the summary.
AttFinish ==
    /\ UNCHANGED <<liveVars, indexVars, sessionVars, classVars, exportVars>>
    /\ pc = "att_loop"
    /\ idx > Len(attendances)
    /\ IF batch # <<>>
       THEN /\ WriteChunk(batch)
            /\ trace' = trace \o AfterChunk \o CloseSequence
       ELSE /\ ev' = [kind |-> "finish", chunk |-> <<>>, before |-> attRows]
            /\ trace' = trace \o CloseSequence
            /\ UNCHANGED <<attRows, inserted, errors, faults>>
    /\ batch' = batch
    /\ synchronous' = "closed"
    /\ pc' = "idle"
    /\ UNCHANGED <<userRows, attendances, device_ip, users_dict, idx, skipped,
                   used, base, repeat, fleetVars>>

\* Mutant: the chunks are written inside one transaction, which is lost with
\* the process.
InterruptedWriteRollsBack(rows, start, chunk, k) == start

\* db_conn.isolation_level = None: every row of an executemany is committed
\* as it is written, so a write that stops before row k+1 of a chunk leaves
\* the store with the rows before it, and one that is left when the statement
\* has run (k = Len(chunk)) leaves the store with the whole chunk.
InterruptedWrite(rows, start, chunk, k) == ExecuteManyAtt(rows, SubSeq(chunk, 1, k))

\* The save is cut short while cursor.executemany writes a chunk, in the loop
\* or after it: the process is killed at some row of the chunk, or Ctrl-C
\* arrives, which is raised when the statement has written every row and
\* which except Exception lets through; the tallies, the commit, PRAGMA
\* synchronous = FULL and the close are not reached.
AttInterrupt ==
    /\ UNCHANGED <<liveVars, indexVars, sessionVars, classVars, exportVars>>
    /\ pc = "att_loop"
    /\ LET n == IF idx <= Len(attendances)
                THEN AttNormalize(attendances[idx], device_ip, users_dict)
                ELSE [kind |-> "none"]
           chunk == IF n.kind = "row" THEN Append(batch, n.row) ELSE batch
       IN  /\ IF idx <= Len(attendances)
              THEN n.kind = "row" /\ ChunkFull(chunk)
              ELSE batch # <<>>
           /\ \E k \in 0..Len(chunk) :
                 attRows' = InterruptedWrite(attRows, base, chunk, k)
           /\ ev' = [kind |-> "interrupted", chunk |-> chunk, before |-> attRows]
    /\ pc' = "interrupted"
    /\ UNCHANGED <<userRows, attendances, device_ip, users_dict, idx, batch, inserted,
                   errors, skipped, synchronous, used, faults, base, repeat, trace,
                   fleetVars>>

\* ----------------------------------------------------- save_users_to_db

\* The whole call: the batch is built, written in one executemany inside the
\* implicit transaction and committed. A failure of the write or of the commit
\* is caught and printed; nothing of the batch is then committed.
SaveUsers(users, ip) ==
    \/ /\ userRows' = ExecuteManyUsers(userRows, UserBatch(users, ip))
       /\ ev' = [kind |-> "users_ok", chunk |-> UserBatch(users, ip),
                 before |-> userRows]
       /\ UNCHANGED faults
    \/ /\ faults < MaxFaults
       /\ faults' = faults + 1
       /\ ev' = [kind |-> "users_failed", chunk |-> UserBatch(users, ip),
                 before |-> userRows]
       /\ UNCHANGED userRows

\* ------------------------------------------------------- the direct calls

\* The user lists the name index of a direct attendance save is built from.
IndexLists == {<<>>, <<UserAnn>>}

\* get_attendance_interactive: the operator saves the fetched list.
DirectSaveAtt ==
    /\ UNCHANGED <<liveVars, indexVars, sessionVars, classVars, exportVars>>
    /\ pc = "idle"
    /\ fpc = "none"
    /\ \E atts \in SeqsUpTo(RawAtts, MaxRecords - used) \ {<<>>}, ip \in DeviceIps,
          users \in IndexLists :
            /\ used' = used + Len(atts)
            /\ BeginSaveAtt(atts, ip, BuildUsersDict(users, EmptyDict))
    /\ UNCHANGED fleetVars

\* The main loop: the operator saves the user list of the connected device.
DirectSaveUsers ==
    /\ UNCHANGED <<liveVars, indexVars, sessionVars, classVars, exportVars>>
    /\ pc = "idle"
    /\ fpc = "none"
    /\ \E users \in SeqsUpTo(RawUsers, MaxRecords - used), ip \in DeviceIps :
            /\ used' = used + Len(users)
            /\ SaveUsers(users, ip)
    /\ UNCHANGED <<attRows, frameVars, base, repeat, trace, fleetVars>>

\* ---------------------------------------------------------- the fleet syncs

\* The registry: device entries with fleet-unique ips.
Registry == {[ip |-> "10.0.0.5", name |-> "Gate-A"],
             [ip |-> "10.0.0.6", name |-> "Gate-B"],
             [ip |-> "10.0.0.7", name |-> "Gate-C"]}

DeviceLists ==
    {l \in SeqsUpTo(Registry, MaxDevices) : \A i, j \in 1..Len(l) : l[i] = l[j] => i = j}

\* What get_users and get_attendance of a device return.
FleetUserLists == {<<>>, <<UserAnn>>, <<UserAnn, UserBadUid, UserAnnNew>>}
FleetAttLists == {<<>>, <<AttOk>>, <<AttOk, AttSameKey, AttMalformed>>}

\* f"{device_name} ({device_ip})"
Label(device) == <<device.name, device.ip>>

NoOutcome == [calls |-> <<>>, raised |-> "none", n |-> -1]

\* A fleet sync or a live capture is running inside the menu loop of the
\* interactive session (options 9, 11 and 12).
InSession == spc = "menu"

\* What the session's own device is left as by a call of another connection
\* to the device of address ip: c if that is the device the session holds.
SeenAs(ip, c) ==
    IF InSession /\ ip = conn_ip /\ conn \in {"open", "disabled"} THEN c ELSE conn

\* What conn.get_users() of a fleet sync returns for the device of address
\* ip: the device the session holds has the user list the session left on it.
UsersOn(lists, ip) == IF InSession /\ ip = conn_ip THEN {device_users} ELSE lists

\* Bound: inside a session the records a fleet sync takes in count against
\* MaxRecords.
Fetchable(lists) ==
    IF InSession THEN {l \in lists : Len(l) <= MaxRecords - used} ELSE lists

\* Bound: what a step inside a session takes in counts against MaxRecords.
Taken(n) == used' = IF InSession THEN used + n ELSE used

\* The lines of a fleet sync before its loop.
FleetBegin(k, l) ==
    /\ kind' = k
    /\ devices' = l
    /\ out' = [i \in 1..Len(l) |-> NoOutcome]
    /\ fpc' = "device"
    /\ didx' = 1
    /\ total' = 0
    /\ success_count' = 0
    /\ failed_devices' = <<>>

\* sync_all_devices_users or sync_all_devices_attendance is called on a
\* device list.
FleetStart ==
    /\ UNCHANGED <<liveVars, indexVars, sessionVars, classVars, exportVars>>
    /\ fpc = "none"
    /\ pc = "idle"
    /\ used = 0
    /\ \E k \in {"users", "attendance"}, l \in DeviceLists : FleetBegin(k, l)
    /\ UNCHANGED <<storeVars, frameVars, ghostVars>>

\* Mutant: the handler ends the loop (break instead of continue).
BreakLoop(i) == Len(devices) + 1

\* continue: the loop goes on with the next device
Continue(i) == i + 1

\* except Exception: the device is listed as failed and the loop goes on.
Handler(calls, n) ==
    /\ failed_devices' = Append(failed_devices, Label(devices[didx]))
    /\ out' = [out EXCEPT ![didx] = [calls |-> calls, raised |-> calls[Len(calls)],
                                      n |-> n]]
    /\ didx' = Continue(didx)
    /\ fpc' = "device"

\* The exception classes a failing device call raises: those of the zk
\* library and of the socket under it.
Raisable == {"ZKNetworkError", "ZKErrorResponse", "ZKErrorConnection", "OSError"}

\* Mutant: the handler names the library's classes only.
CatchesLibraryErrors(exc) == exc \in {"ZKNetworkError", "ZKErrorResponse", "ZKErrorConnection"}

\* except Exception: every class but those derived from BaseException only
Catches(exc) == exc \notin {"KeyboardInterrupt", "SystemExit", "GeneratorExit"}

\* A device call raises exc: the handler runs if the except clause matches,
\* otherwise the exception leaves the fleet sync and no report is printed.
Raise(exc, calls, n) ==
    IF Catches(exc)
    THEN Handler(calls, n)
    ELSE /\ fpc' = "escaped"
         /\ UNCHANGED <<failed_devices, out, didx>>

\* The calls before the fetch result is at hand, in order.
AcquireCalls ==
    IF kind = "users" THEN <<"connect", "disable_device", "get_users">>
    ELSE <<"connect", "disable_device", "get_users", "get_attendance">>

\* zk.connect(), conn.disable_device() or a fetch raises; a fetch raises
\* with the device disabled.
FleetAcquireFails ==
    /\ UNCHANGED <<liveVars, indexVars, spc, conn_ip, session_users, device_users,
                   classVars, exportVars>>
    /\ fpc = "device"
    /\ didx <= Len(devices)
    /\ \E k \in 1..Len(AcquireCalls), exc \in Raisable :
          /\ Raise(exc, SubSeq(AcquireCalls, 1, k), -1)
          /\ conn' = IF k >= 3 THEN SeenAs(devices[didx].ip, "disabled") ELSE conn
    /\ UNCHANGED <<storeVars, frameVars, ghostVars, kind, devices, total, success_count>>

\* sync_all_devices_users up to conn.enable_device(): connect, disable and
\* get_users succeed; a non-empty list is saved and counted.
FleetFetchUsers ==
    /\ UNCHANGED <<liveVars, indexVars, spc, conn_ip, session_users, device_users,
                   classVars, exportVars>>
    /\ fpc = "device"
    /\ didx <= Len(devices)
    /\ kind = "users"
    /\ conn' = SeenAs(devices[didx].ip, "disabled")
    /\ \E users \in Fetchable(UsersOn(FleetUserLists, devices[didx].ip)) :
          /\ out' = [out EXCEPT ![didx] = [calls |-> AcquireCalls, raised |-> "none",
                                            n |-> Len(users)]]
          /\ Taken(Len(users))
          /\ IF users # <<>>
             THEN /\ SaveUsers(users, devices[didx].ip)
                  /\ total' = total + Len(users)
                  /\ success_count' = success_count + 1
             ELSE UNCHANGED <<userRows, faults, ev, total, success_count>>
    /\ fpc' = "release"
    /\ UNCHANGED <<attRows, frameVars, base, repeat, trace, kind, devices, didx,
                   failed_devices>>

\* sync_all_devices_attendance up to the call of save_attendance_to_db:
\* connect, disable and both fetches succeed and the name index is built.
FleetFetchAtt ==
    /\ UNCHANGED <<liveVars, indexVars, spc, conn_ip, session_users, device_users,
                   classVars, exportVars>>
    /\ fpc = "device"
    /\ didx <= Len(devices)
    /\ kind = "attendance"
    /\ conn' = SeenAs(devices[didx].ip, "disabled")
    /\ \E users \in UsersOn(IndexLists, devices[didx].ip),
          atts \in Fetchable(FleetAttLists) :
          /\ out' = [out EXCEPT ![didx] = [calls |-> AcquireCalls, raised |-> "none",
                                            n |-> Len(atts)]]
          /\ Taken(Len(atts))
          /\ IF atts # <<>>
             THEN /\ BeginSaveAtt(atts, devices[didx].ip,
                                  BuildUsersDict(users, EmptyDict))
                  /\ fpc' = "saving"
             ELSE /\ fpc' = "release"
                  /\ UNCHANGED <<storeVars, frameVars, faults, ev, base, repeat, trace>>
    /\ UNCHANGED <<kind, devices, didx, total, success_count, failed_devices>>

\* save_attendance_to_db has returned: the device is counted.
FleetStored ==
    /\ UNCHANGED <<liveVars, indexVars, sessionVars, classVars, exportVars>>
    /\ fpc = "saving"
    /\ pc = "idle"
    /\ total' = total + Len(attendances)
    /\ success_count' = success_count + 1
    /\ fpc' = "release"
    /\ UNCHANGED <<storeVars, frameVars, ghostVars, kind, devices, didx,
                   failed_devices, out>>

\* conn.enable_device(); conn.disconnect(): either may raise, inside the
\* same try as the fetch.
FleetRelease ==
    /\ UNCHANGED <<liveVars, indexVars, spc, conn_ip, session_users, device_users,
                   classVars, exportVars>>
    /\ fpc = "release"
    /\ \/ /\ \E exc \in Raisable :
                Raise(exc, out[didx].calls \o <<"enable_device">>, out[didx].n)
          /\ UNCHANGED conn
       \/ /\ \E exc \in Raisable :
                Raise(exc, out[didx].calls \o <<"enable_device", "disconnect">>,
                      out[didx].n)
          /\ conn' = SeenAs(devices[didx].ip, "open")
       \/ /\ out' = [out EXCEPT ![didx].calls = @ \o <<"enable_device", "disconnect">>]
          /\ didx' = didx + 1
          /\ fpc' = "device"
          /\ conn' = SeenAs(devices[didx].ip, "open")
          /\ UNCHANGED failed_devices
    /\ UNCHANGED <<storeVars, frameVars, ghostVars, kind, devices, total, success_count>>

\* After the loop: the report is printed.
FleetReport ==
    /\ UNCHANGED <<liveVars, indexVars, sessionVars, classVars, exportVars>>
    /\ fpc = "device"
    /\ didx > Len(devices)
    /\ fpc' = "done"
    /\ UNCHANGED <<storeVars, frameVars, ghostVars, kind, devices, didx, total,
                   success_count, failed_devices, out>>

\* ------------------------------------------------ live_capture_interactive

\* Elements the device stream yields in one capture.
MaxPulls == 4
\* Bursts of keys the operator types during one capture.
MaxTyped == 2

\* What the operator types at once: a line on posix (sys.stdin is a terminal
\* in canonical mode, which delivers whole lines), a key on win32. "arrow" is the first byte of an arrow key (0xe0 on win32).
Bursts(plat) ==
    IF plat = "posix"
    THEN {<<"q", "\n">>, <<"Q", "\n">>, <<" ", "q", "\n">>, <<"\n">>}
    ELSE {<<"q">>, <<"Q">>, <<" ">>, <<"arrow">>}

\* str.lower() on the keys of the model
Lower(ch) == IF ch = "Q" THEN "q" ELSE ch

\* msvcrt.getch().decode() raises UnicodeDecodeError on the byte 0xe0
DecodeRaises(ch) == ch = "arrow"

\* The first line of what the terminal holds, its newline included.
FirstLine(t) ==
    LET n == CHOOSE i \in 1..Len(t) : t[i] = "\n" /\ \A j \in 1..(i - 1) : t[j] # "\n"
    IN  SubSeq(t, 1, n)

\* select.select([sys.stdin], [], [], 0) looks at the terminal only, while
\* sys.stdin.read(1) first serves the characters sys.stdin holds from an
\* earlier read and, if it holds none, reads from the terminal, which hands
\* over one line per read. ch is "none" when nothing was read.
PollPosix(t, b) ==
    IF t = <<>> THEN [ch |-> "none", tty |-> t, buf |-> b]
    ELSE IF b # <<>> THEN [ch |-> Head(b), tty |-> t, buf |-> Tail(b)]
    ELSE [ch |-> Head(t),
          tty |-> SubSeq(t, Len(FirstLine(t)) + 1, Len(t)),
          buf |-> Tail(FirstLine(t))]

\* msvcrt.kbhit() / msvcrt.getch(): one key of the console queue
PollWin32(t, b) ==
    IF t = <<>> THEN [ch |-> "none", tty |-> t, buf |-> b]
    ELSE [ch |-> Head(t), tty |-> Tail(t), buf |-> b]

Poll(plat, t, b) == IF plat = "win32" THEN PollWin32(t, b) ELSE PollPosix(t, b)

\* user_input == 'q'
QuitKey(ch) == Lower(ch) = "q"

\* The timeout sentinel of the stream: None, an object with none of the
\* attributes of an event.
NoneElement == [has |-> {}]

\* if att is None
IsTimeout(att) == att = NoneElement

\* Mutant: the keyboard is polled at the end of the loop body.
LiveStepPollLast(att, ch) ==
    [stop |-> QuitKey(ch), count |-> ~IsTimeout(att), show |-> ~IsTimeout(att)]

\* The loop body after the poll read ch: break on a quit key, continue on a
\* timeout, else count and print the event.
LiveStep(att, ch) ==
    [stop |-> QuitKey(ch),
     count |-> ~QuitKey(ch) /\ ~IsTimeout(att),
     show |-> ~QuitKey(ch) /\ ~IsTimeout(att)]

\* status_map.get(status_code, str(status_code)) if status_code is not None
StatusText(att) ==
    IF "status" \notin att.has THEN ""
    ELSE CASE att.status = "0" -> "Check-In"
           [] att.status = "1" -> "Check-Out"
           [] att.status = "2" -> "Break-Out"
           [] OTHER -> att.status

\* str(getattr(att, 'uid', ''))
LiveUid(att) == IF "uid" \in att.has THEN StrOfUid(att.uid) ELSE <<>>

\* str(getattr(att, 'user_id', ''))
LiveUserId(att) == IF "user_id" \in att.has THEN att.user_id ELSE <<>>

\* users_dict.get(uid, "") or users_dict.get(user_id, "")
LiveResolve(udict, uid, user_id) ==
    IF DictGet(udict, uid) # "" THEN DictGet(udict, uid) ELSE DictGet(udict, user_id)

\* row = [str(counter), uid, user_id, name, timestamp, status]
LiveRow(att, n, udict) ==
    [counter |-> n, uid |-> LiveUid(att), user_id |-> LiveUserId(att),
     name |-> LiveResolve(udict, LiveUid(att), LiveUserId(att)),
     timestamp |-> IF "timestamp" \in att.has THEN att.timestamp ELSE <<>>,
     status |-> StatusText(att)]

\* What conn.live_capture() yields: a timeout (None) or an event.
LiveElements == {NoneElement, AttOk, AttMalformed, AttNoUserId}

\* The lines of live_capture_interactive before the loop.
LiveBegin(plat, users) ==
    /\ platform' = plat
    /\ users_dict' = BuildUsersDict(users, EmptyDict)
    /\ lpc' = "capture"
    /\ captured_events' = 0
    /\ counter' = 0

\* live_capture_interactive is called on a connection and a user list.
LiveStart ==
    /\ UNCHANGED <<indexVars, sessionVars, classVars, exportVars>>
    /\ lpc = "none"
    /\ pc = "idle"
    /\ fpc = "none"
    /\ used = 0
    /\ \E plat \in {"posix", "win32"}, users \in IndexLists : LiveBegin(plat, users)
    /\ UNCHANGED <<storeVars, pc, attendances, device_ip, idx, batch, inserted, errors,
                   skipped, synchronous, ghostVars, fleetVars, tty, stdinbuf, shown,
                   pulled, polls, lend, report, typed>>

\* The operator types while the capture runs.
LiveType ==
    /\ UNCHANGED <<indexVars, sessionVars, classVars, exportVars>>
    /\ lpc = "capture"
    /\ typed < MaxTyped
    /\ InSession => used < MaxRecords
    /\ \E burst \in Bursts(platform) : tty' = tty \o burst
    /\ typed' = typed + 1
    /\ Taken(1)
    /\ UNCHANGED <<storeVars, frameVars, faults, ev, base, repeat, trace, fleetVars, lpc, platform, stdinbuf,
                   captured_events, counter, shown, pulled, polls, lend, report>>

\* The print of the total after the loop.
LiveReturn(how, n) ==
    /\ lpc' = "returned"
    /\ lend' = how
    /\ report' = n

\* Where Ctrl-C may reach the loop body: not at all, after the stream has
\* yielded the element, after the poll of the keyboard, or after the count
\* and before the print of the row.
InterruptPoints == {"none", "pulled", "polled", "counted"}

\* How the interrupt reaches the program: the interrupt key of the terminal
\* or a SIGINT sent to the process.
InterruptSources == {"key", "signal"}

\* What is typed and not read after the interrupt: on the interrupt key a
\* posix terminal discards it, the console of win32 does not; a SIGINT sent
\* to the process leaves the terminal as it is. What sys.stdin has read stays.
AfterInterrupt(plat, by, t) == IF by = "key" /\ plat # "win32" THEN <<>> ELSE t

\* One iteration of the loop: the stream yields an element, the keyboard is
\* polled, then the element is dropped (quit), passed over (timeout) or
\* counted and printed. KeyboardInterrupt is caught around the loop: the
\* iteration stops where it is and the total is printed.
LiveIteration ==
    /\ UNCHANGED <<indexVars, sessionVars, classVars, exportVars>>
    /\ lpc = "capture"
    /\ Len(pulled) < MaxPulls
    /\ InSession => used < MaxRecords
    /\ Taken(1)
    /\ \E att \in LiveElements, at \in InterruptPoints, by \in InterruptSources :
         LET p == Poll(platform, tty, stdinbuf)
             step == LiveStep(att, p.ch)
         IN  /\ pulled' = Append(pulled, att)
             /\ IF at = "pulled"
                THEN /\ LiveReturn("interrupt", captured_events)
                     /\ tty' = AfterInterrupt(platform, by, tty)
                     /\ UNCHANGED <<polls, stdinbuf, captured_events, counter, shown>>
                ELSE
                /\ polls' = polls + 1
                /\ tty' = IF at \in {"polled", "counted"}
                              /\ ~(platform = "win32" /\ DecodeRaises(p.ch))
                           THEN AfterInterrupt(platform, by, p.tty)
                           ELSE p.tty
                /\ stdinbuf' = p.buf
                /\ IF platform = "win32" /\ DecodeRaises(p.ch)
                   THEN /\ lpc' = "failed"
                        /\ lend' = "error"
                        /\ UNCHANGED <<captured_events, counter, shown, report>>
                   ELSE IF at = "polled"
                   THEN /\ LiveReturn("interrupt", captured_events)
                        /\ UNCHANGED <<captured_events, counter, shown>>
                   ELSE IF at = "counted"
                   THEN /\ step.count
                        /\ captured_events' = captured_events + 1
                        /\ counter' = counter + 1
                        /\ shown' = shown
                        /\ LiveReturn("interrupt", captured_events')
                   ELSE /\ captured_events' =
                               IF step.count THEN captured_events + 1 ELSE captured_events
                        /\ counter' = IF step.count THEN counter + 1 ELSE counter
                        /\ shown' = IF step.show
                                    THEN Append(shown, LiveRow(att, counter', users_dict))
                                    ELSE shown
                        /\ IF step.stop
                           THEN LiveReturn("quit", captured_events')
                           ELSE UNCHANGED <<lpc, lend, report>>
    /\ UNCHANGED <<storeVars, frameVars, faults, ev, base, repeat, trace, fleetVars,
                   platform, typed>>

\* The loop ends without a quit: the stream is exhausted, Ctrl-C is pressed
\* (KeyboardInterrupt is caught around the loop) or the stream raises.
LiveStreamEnds ==
    /\ UNCHANGED <<indexVars, sessionVars, classVars, exportVars>>
    /\ lpc = "capture"
    /\ \/ /\ LiveReturn("exhausted", captured_events)
          /\ UNCHANGED tty
       \/ /\ LiveReturn("interrupt", captured_events)
          /\ \E by \in InterruptSources : tty' = AfterInterrupt(platform, by, tty)
       \/ /\ lpc' = "failed"
          /\ lend' = "error"
          /\ UNCHANGED <<report, tty>>
    /\ UNCHANGED <<storeVars, frameVars, ghostVars, fleetVars, platform, stdinbuf,
                   captured_events, counter, shown, pulled, polls, typed>>

\* ------------------------------------------------------- the name index

\* Longest user list a name index is built from.
MaxIndexUsers == 2

\* The identifiers an attendance record is resolved by: uid after int(),
\* user_id after strip().
QueryUids == 0..2
QueryUserIds == {<<"a">>, <<"b">>, <<"1">>}

NoQuery == [asked |-> FALSE, uid |-> 0, user_id |-> <<>>, name |-> ""]

\* The loop that fills users_dict from the user list of a device.
IndexBuild ==
    /\ UNCHANGED <<sessionVars, classVars, exportVars>>
    /\ pc = "idle"
    /\ fpc = "none"
    /\ lpc = "none"
    /\ used = 0
    /\ \E users \in SeqsUpTo(RawUsers, MaxIndexUsers) :
          /\ rusers' = users
          /\ users_dict' = BuildUsersDict(users, EmptyDict)
    /\ resolved' = NoQuery
    /\ UNCHANGED <<storeVars, pc, attendances, device_ip, idx, batch, inserted, errors,
                   skipped, synchronous, ghostVars, fleetVars, liveVars>>

\* The look-up of the name of one attendance record.
ResolveQuery ==
    /\ UNCHANGED <<sessionVars, classVars, exportVars>>
    /\ pc = "idle"
    /\ fpc = "none"
    /\ lpc = "none"
    /\ used = 0
    /\ \E uid \in QueryUids, user_id \in QueryUserIds :
          resolved' = [asked |-> TRUE, uid |-> uid, user_id |-> user_id,
                       name |-> ResolveName(users_dict, uid, user_id)]
    /\ UNCHANGED <<storeVars, frameVars, ghostVars, fleetVars, liveVars, rusers>>

\* ------------------------------------------------- the interactive session

\* Mutant: the two DROP TABLE statements are not commented out.
DropAndCreate(rows) == {}

\* CREATE TABLE IF NOT EXISTS: a table that exists keeps its rows
CreateIfNotExists(rows) == rows

\* What conn.get_users() returns when a session is opened.
SessionUserLists == {<<>>, <<UserAnn>>}

\* The users conn.set_user() writes to the device.
SetUsers == {UserAnnNew}

\* conn.get_users() after conn.set_user(uid=...): the user of that uid is
\* overwritten, or added.
WithUser(users, u) ==
    IF \E i \in 1..Len(users) : users[i].uid = u.uid
    THEN [i \in 1..Len(users) |-> IF users[i].uid = u.uid THEN u ELSE users[i]]
    ELSE Append(users, u)

\* conn.get_users() after conn.delete_user(uid)
WithoutUid(users, uid) ==
    LET Keep(u) == u.uid # uid IN SelectSeq(users, Keep)

\* The menu loop is not running: its user list and device are not in use
\* (the next pass of the outer loop fetches the list anew).
NoSession ==
    /\ conn_ip' = ""
    /\ session_users' = <<>>
    /\ device_users' = <<>>

\* The program is started: conn = None, the default device_ip, init_database()
\* and the device list, with nothing read from the terminal and sys.platform
\* not looked at. What an earlier run held in memory is gone.
ProgramStart ==
    /\ spc = "off"
    /\ pc = "idle"
    /\ fpc = "none"
    /\ lpc = "none"
    /\ attRows' = CreateIfNotExists(attRows)
    /\ userRows' = CreateIfNotExists(userRows)
    /\ ev' = [kind |-> "init_database", chunk |-> <<>>, before |-> attRows]
    /\ spc' = "connect"
    /\ conn' = "None"
    /\ NoSession
    /\ platform' = "unread"
    /\ tty' = <<>>
    /\ stdinbuf' = <<>>
    /\ UNCHANGED <<frameVars, used, faults, base, repeat, trace, fleetVars, lpc,
                   captured_events, counter, shown, pulled, polls, lend, report, typed,
                   indexVars, classVars, exportVars>>

\* finally: if conn: conn.disconnect(). The program ends; nothing enables
\* the device here.
Ended(c) ==
    CASE c = "open" -> "released"
      [] c = "disabled" -> "left_disabled"
      [] OTHER -> c

\* except Exception of the outer loop: the operator retries, or the program
\* ends through the finally clause. c is the session as the failure left it.
ConnectionError(c) ==
    /\ \E retry \in BOOLEAN :
          IF retry THEN spc' = "connect" /\ conn' = c
          ELSE spc' = "off" /\ conn' = Ended(c)
    /\ NoSession

\* The outer loop up to the menu: connect, disable, get_users and the offer
\* to save the list. A failure asks whether to retry.
SessionConnect ==
    /\ spc = "connect"
    /\ \E ip \in DeviceIps :
          /\ \/ /\ \/ ConnectionError(conn)          \* zk.connect() raises
                   \/ ConnectionError("open")        \* conn.disable_device()
                   \/ ConnectionError("disabled")    \* conn.get_users()
                /\ UNCHANGED <<userRows, used, faults, ev>>
             \/ /\ conn_ip' = ip
                /\ \E list \in {l \in SessionUserLists : Len(l) <= MaxRecords - used},
                      save \in BOOLEAN :
                      /\ session_users' = list
                      /\ device_users' = list
                      /\ IF save
                         THEN /\ SaveUsers(list, ip)
                              /\ used' = used + Len(list)
                         ELSE UNCHANGED <<userRows, used, faults, ev>>
                /\ spc' = "menu"
                /\ conn' = "disabled"
    /\ UNCHANGED <<attRows, frameVars, base, repeat, trace, fleetVars, liveVars,
                   indexVars, classVars, exportVars>>

\* The menu loop is between two calls: no function called from it is running.
BetweenCalls ==
    /\ spc = "menu"
    /\ pc = "idle"
    /\ fpc = "none"
    /\ lpc = "none"

\* Nothing is left of the function the menu called last: its locals and the
\* record of its steps on the store.
Forgotten ==
    /\ attendances = <<>>
    /\ device_ip = ""
    /\ users_dict = EmptyDict
    /\ idx = 1
    /\ batch = <<>>
    /\ inserted = 0
    /\ errors = 0
    /\ skipped = 0
    /\ synchronous = "closed"
    /\ ev = NoEvent
    /\ base = {}
    /\ repeat = FALSE
    /\ trace = <<>>

\* show_menu() and the prompt of the menu loop, with the terminal holding
\* nothing typed earlier: the operator's choice is read next.
AtMenu ==
    /\ BetweenCalls
    /\ tty = <<>>
    /\ Forgotten

\* The function called from the menu loop has returned and the menu is shown
\* again; the locals of the function are gone.
MenuShown ==
    /\ BetweenCalls
    /\ ~Forgotten
    /\ attendances' = <<>>
    /\ device_ip' = ""
    /\ users_dict' = EmptyDict
    /\ idx' = 1
    /\ batch' = <<>>
    /\ inserted' = 0
    /\ errors' = 0
    /\ skipped' = 0
    /\ synchronous' = "closed"
    /\ ev' = NoEvent
    /\ base' = {}
    /\ repeat' = FALSE
    /\ trace' = <<>>
    /\ UNCHANGED <<storeVars, pc, used, faults, fleetVars, liveVars, indexVars,
                   sessionVars, classVars, exportVars>>

\* What input() of the menu prompt leaves of the keys typed earlier: it reads
\* the terminal, not what sys.stdin holds, one line on posix and the line the
\* console is editing on win32.
AfterPrompt(plat, t) ==
    IF plat = "win32" THEN <<>> ELSE SubSeq(t, Len(FirstLine(t)) + 1, Len(t))

\* The menu prompt reads what was typed during a live capture and not read
\* by it: it is no choice of 0-13 and the menu is shown again.
MenuTypedAhead ==
    /\ BetweenCalls
    /\ tty # <<>>
    /\ tty' = AfterPrompt(platform, tty)
    /\ UNCHANGED <<storeVars, frameVars, ghostVars, fleetVars, lpc, platform, stdinbuf,
                   captured_events, counter, shown, pulled, polls, lend, report, typed,
                   indexVars, sessionVars, classVars, exportVars>>

\* Option 2: create_user_interactive, then users = conn.get_users(). The
\* operator declines or conn.set_user() fails (caught), or the user is set on
\* the device; a uid or card that is not a number, or a failure of
\* conn.get_users(), raises out of the menu loop.
MenuCreateUser ==
    /\ AtMenu
    /\ \/ /\ \/ \E u \in SetUsers : device_users' = WithUser(device_users, u)
             \/ UNCHANGED device_users
          /\ session_users' = device_users'
          /\ UNCHANGED <<spc, conn, conn_ip>>
       \/ ConnectionError(conn)
    /\ UNCHANGED <<storeVars, frameVars, ghostVars, fleetVars, liveVars, indexVars,
                   classVars, exportVars>>

\* Option 3: edit_user_interactive on a user of the list, confirmed:
\* conn.set_user() fails (caught), or the device takes the user and the list
\* is read again, unless conn.get_users() fails (caught: the list is kept).
MenuEditUser ==
    /\ AtMenu
    /\ \E i \in 1..Len(session_users), u \in SetUsers :
          /\ session_users[i].uid \in DOMAIN IntLiteral
          /\ \/ UNCHANGED <<device_users, session_users>>
             \/ /\ device_users' = WithUser(device_users, u)
                /\ \/ session_users' = device_users'
                   \/ UNCHANGED session_users
    /\ UNCHANGED <<storeVars, frameVars, ghostVars, fleetVars, liveVars, indexVars,
                   spc, conn_ip, conn, classVars, exportVars>>

\* Option 4: delete_user_interactive on a user of the list, confirmed:
\* conn.delete_user() fails (caught), or the device drops the user and the
\* list is read again, unless conn.get_users() fails (caught: the list is
\* kept).
MenuDeleteUser ==
    /\ AtMenu
    /\ \E i \in 1..Len(session_users) :
          /\ session_users[i].uid \in DOMAIN IntLiteral
          /\ \/ UNCHANGED <<device_users, session_users>>
             \/ /\ device_users' = WithoutUid(device_users, session_users[i].uid)
                /\ \/ session_users' = device_users'
                   \/ UNCHANGED session_users
    /\ UNCHANGED <<storeVars, frameVars, ghostVars, fleetVars, liveVars, indexVars,
                   spc, conn_ip, conn, classVars, exportVars>>

\* Option 8: get_attendance_interactive; the operator has a non-empty list
\* saved, with the name index of the session's user list.
MenuAttendance ==
    /\ AtMenu
    /\ \E atts \in {l \in FleetAttLists : l # <<>> /\ Len(l) <= MaxRecords - used} :
          /\ used' = used + Len(atts)
          /\ BeginSaveAtt(atts, conn_ip, BuildUsersDict(session_users, EmptyDict))
    /\ UNCHANGED <<fleetVars, liveVars, indexVars, sessionVars, classVars, exportVars>>

\* The device list load_devices("devices.json") gave the program.
LoadedDevices == <<[ip |-> "10.0.0.5", name |-> "Gate-A"],
                   [ip |-> "10.0.0.6", name |-> "Gate-B"]>>

\* Bound: inside a session a fleet sync counts against MaxRecords, one for
\* every device it is given.
CallTaken(n) ==
    /\ used + n <= MaxRecords
    /\ used' = used + n

\* Options 11 and 12: sync_all_devices_users(devices) and
\* sync_all_devices_attendance(devices) are called from the menu.
MenuSyncAll ==
    /\ AtMenu
    /\ CallTaken(Len(LoadedDevices))
    /\ \E k \in {"users", "attendance"} : FleetBegin(k, LoadedDevices)
    /\ UNCHANGED <<storeVars, frameVars, faults, ev, base, repeat, trace, liveVars,
                   indexVars, sessionVars, classVars, exportVars>>

\* The fleet sync has printed its report and returns to the menu; its locals
\* are gone. Option 11 then reads the user list of the session's device
\* again (users = conn.get_users()), which may raise out of the menu loop.
MenuSyncReturn ==
    /\ InSession
    /\ fpc = "done"
    /\ fpc' = "none"
    /\ kind' = "users"
    /\ devices' = <<>>
    /\ didx' = 1
    /\ total' = 0
    /\ success_count' = 0
    /\ failed_devices' = <<>>
    /\ out' = <<>>
    /\ IF kind = "users"
       THEN \/ /\ session_users' = device_users
               /\ UNCHANGED <<spc, conn_ip, device_users, conn>>
            \/ ConnectionError(conn)
       ELSE UNCHANGED sessionVars
    /\ UNCHANGED <<storeVars, frameVars, ghostVars, liveVars, indexVars, classVars,
                   exportVars>>

\* Option 9: live_capture_interactive(conn, users) is called from the menu.
\* The first capture of a run finds what sys.platform is; it is the same in
\* every later capture of the run. (Bound: no capture is started when
\* MaxRecords is used up, since it could pull nothing.)
MenuLiveCapture ==
    /\ AtMenu
    /\ used < MaxRecords
    /\ UNCHANGED used
    /\ \E plat \in (IF platform = "unread" THEN {"posix", "win32"} ELSE {platform}) :
          LiveBegin(plat, session_users)
    /\ UNCHANGED <<storeVars, pc, attendances, device_ip, idx, batch, inserted, errors,
                   skipped, synchronous, faults, ev, base, repeat, trace, fleetVars,
                   tty, stdinbuf, shown, pulled, polls, lend, report, typed, indexVars,
                   sessionVars, classVars, exportVars>>

\* The capture has printed its total, or its error, and returns to the menu;
\* its locals are gone. What was typed and not read stays in the terminal,
\* and what sys.stdin has read and not handed out stays in sys.stdin.
MenuLiveReturn ==
    /\ InSession
    /\ lpc \in {"returned", "failed"}
    /\ lpc' = "none"
    /\ captured_events' = 0
    /\ counter' = 0
    /\ shown' = <<>>
    /\ pulled' = <<>>
    /\ polls' = 0
    /\ lend' = "none"
    /\ report' = -1
    /\ typed' = 0
    /\ UNCHANGED <<storeVars, frameVars, ghostVars, fleetVars, platform, tty, stdinbuf,
                   indexVars, sessionVars, classVars, exportVars>>

\* Option 13, or option 10 with another device: the menu loop is left with
\* change_ip set, then conn.test_voice(), conn.enable_device() and
\* conn.disconnect() release the device and the outer loop connects again;
\* a failure of one of the three asks whether to retry.
MenuChangeIp ==
    /\ AtMenu
    /\ \/ spc' = "connect" /\ conn' = "released" /\ NoSession
       \/ ConnectionError(conn)       \* conn.test_voice() or conn.enable_device()
       \/ ConnectionError("open")     \* conn.disconnect()
    /\ UNCHANGED <<storeVars, frameVars, ghostVars, fleetVars, liveVars, indexVars,
                   classVars, exportVars>>

\* Option 0: handle_menu_option returns (None, None), change_ip is False and
\* both loops are left before the release of the device; the finally clause
\* disconnects.
MenuExit ==
    /\ AtMenu
    /\ spc' = "off"
    /\ conn' = Ended(conn)
    /\ NoSession
    /\ UNCHANGED <<storeVars, frameVars, ghostVars, fleetVars, liveVars, indexVars,
                   classVars, exportVars>>

\* -------------------------------------------- the privilege of a user row

\* The largest raw privilege value a device is taken to report.
MaxPrivilege == 15

\* user.privilege as the device reports it
RawPrivileges == 0..MaxPrivilege

\* No user row has been built.
NoUser == [asked |-> FALSE, raw |-> 0, row |-> UserRow(UserAnn, "")]

\* One pass of the loop of save_users_to_db over a user whose privilege is
\* raw: the row appended to the batch.
BuildUserRow ==
    /\ \E u \in RawUsers, raw \in RawPrivileges, ip \in DeviceIps :
          LET user == [u EXCEPT !.privilege = raw] IN
              /\ ~UserRaises(user)
              /\ classified' = [asked |-> TRUE, raw |-> raw, row |-> UserRow(user, ip)]
    /\ UNCHANGED <<storeVars, frameVars, ghostVars, fleetVars, liveVars, indexVars,
                   sessionVars, exportVars>>

\* --------------------------------------- export_devices_to_csv of simple.py

\* The longest device list exported.
MaxExport == 2

\* Entries of devices.json: with an ip, with an address only, with an empty
\* ip, with neither key.
EntryIp == [has |-> {"ip"}, ip |-> "10.0.0.5", address |-> ""]
EntryAddress == [has |-> {"address"}, ip |-> "", address |-> "10.0.0.6"]
EntryEmptyIp == [has |-> {"ip"}, ip |-> "", address |-> ""]
EntryNoIp == [has |-> {}, ip |-> "", address |-> ""]

DeviceEntries == {EntryIp, EntryAddress, EntryEmptyIp, EntryNoIp}

\* device_entry.get('ip') or device_entry.get('address'); "" stands for any
\* false value
IpOf(entry) ==
    IF "ip" \in entry.has /\ entry.ip # "" THEN entry.ip
    ELSE IF "address" \in entry.has THEN entry.address
    ELSE ""

\* The device calls of fetch_device_snapshot that can raise; "read_info" is
\* set_sdk_build_1, disable_device and the reads of build_device_info.
SnapshotCalls == {"connect", "read_info", "enable_device", "disconnect"}

\* str(exc) of the exception a call raises
StrOfExc(call) ==
    CASE call = "connect" -> "connect failed"
      [] call = "read_info" -> "read_info failed"
      [] call = "enable_device" -> "enable_device failed"
      [] call = "disconnect" -> "disconnect failed"

\* fetch_device_snapshot when the calls of failing raise: what it returns
\* (info read or not, the error text), or that it raises. The exception of
\* enable_device is passed over; conn_local.disconnect() in the finally
\* clause is not guarded and its exception replaces the return value.
FetchDeviceSnapshot(entry, failing) ==
    IF IpOf(entry) = ""
    THEN [raises |-> FALSE, info |-> FALSE, error |-> "missing ip"]
    ELSE IF "connect" \in failing
    THEN [raises |-> FALSE, info |-> FALSE, error |-> StrOfExc("connect")]
    ELSE IF "disconnect" \in failing
    THEN [raises |-> TRUE, info |-> FALSE, error |-> StrOfExc("disconnect")]
    ELSE IF "read_info" \in failing
    THEN [raises |-> FALSE, info |-> FALSE, error |-> StrOfExc("read_info")]
    ELSE [raises |-> FALSE, info |-> TRUE, error |-> ""]

\* The sets of failing calls that differ in what is called: none without an
\* ip, and nothing after a connect that raised.
Failings(entry) ==
    IF IpOf(entry) = "" THEN {{}}
    ELSE {{"connect"}} \cup SUBSET (SnapshotCalls \ {"connect"})

\* The file is read, the header written.
ExportStart ==
    /\ epc = "none"
    /\ \E list \in SeqsUpTo(DeviceEntries, MaxExport) : export_devices' = list
    /\ csv_rows' = <<>>
    /\ export_out' = <<>>
    /\ epc' = "writing"
    /\ UNCHANGED <<storeVars, frameVars, ghostVars, fleetVars, liveVars, indexVars,
                   sessionVars, classVars>>

\* One pass of the loop over devices: the snapshot is fetched and the row
\* written; an exception of fetch_device_snapshot ends the export.
ExportDevice ==
    /\ epc = "writing"
    /\ Len(export_out) < Len(export_devices)
    /\ LET device == export_devices[Len(export_out) + 1] IN
          \E failing \in Failings(device) :
              LET snap == FetchDeviceSnapshot(device, failing) IN
                  /\ export_out' = Append(export_out, failing)
                  /\ IF snap.raises
                     THEN epc' = "raised" /\ UNCHANGED csv_rows
                     ELSE /\ csv_rows' = Append(csv_rows, [device |-> device,
                                                           error |-> snap.error,
                                                           info |-> snap.info])
                          /\ UNCHANGED epc
    /\ UNCHANGED <<storeVars, frameVars, ghostVars, fleetVars, liveVars, indexVars,
                   sessionVars, classVars, export_devices>>

\* After the loop: the file is closed and the number of devices printed.
ExportDone ==
    /\ epc = "writing"
    /\ Len(export_out) = Len(export_devices)
    /\ epc' = "exported"
    /\ UNCHANGED <<storeVars, frameVars, ghostVars, fleetVars, liveVars, indexVars,
                   sessionVars, classVars, export_devices, csv_rows, export_out>>

vars == <<attRows, userRows, pc, attendances, device_ip, users_dict, idx, batch,
          inserted, errors, skipped, synchronous, used, faults, ev, base, repeat, trace,
          fpc, kind, devices, didx, total, success_count, failed_devices, out,
          lpc, platform, tty, stdinbuf, captured_events, counter, shown, pulled,
          polls, lend, report, typed, rusers, resolved, spc, conn_ip,
          session_users, device_users, conn, classified, epc, export_devices, csv_rows,
          export_out>>

Init ==
    /\ InitStore
    /\ InitLive
    /\ rusers = <<>>
    /\ resolved = [asked |-> FALSE, uid |-> 0, user_id |-> <<>>, name |-> ""]
    /\ spc = "off"
    /\ conn_ip = ""
    /\ session_users = <<>>
    /\ device_users = <<>>
    /\ conn = "None"
    /\ classified = NoUser
    /\ epc = "none"
    /\ export_devices = <<>>
    /\ csv_rows = <<>>
    /\ export_out = <<>>

Next ==
    \/ DirectSaveAtt
    \/ DirectSaveUsers
    \/ AttRecord
    \/ AttFinish

Spec == Init /\ [][Next]_vars

NextInterrupt ==
    \/ DirectSaveAtt
    \/ AttRecord
    \/ AttFinish
    \/ AttInterrupt

SpecInterrupt == Init /\ [][NextInterrupt]_vars

NextPrivilege == BuildUserRow

SpecPrivilege == Init /\ [][NextPrivilege]_vars

NextExport ==
    \/ ExportStart
    \/ ExportDevice
    \/ ExportDone

SpecExport == Init /\ [][NextExport]_vars

NextFleet ==
    \/ FleetStart
    \/ FleetAcquireFails
    \/ FleetFetchUsers
    \/ FleetFetchAtt
    \/ AttRecord
    \/ AttFinish
    \/ FleetStored
    \/ FleetRelease
    \/ FleetReport

SpecFleet == Init /\ [][NextFleet]_vars

NextLive ==
    \/ LiveStart
    \/ LiveType
    \/ LiveIteration
    \/ LiveStreamEnds

SpecLive == Init /\ [][NextLive]_vars

NextResolve ==
    \/ IndexBuild
    \/ ResolveQuery

SpecResolve == Init /\ [][NextResolve]_vars

NextSession ==
    \/ ProgramStart
    \/ SessionConnect
    \/ MenuShown
    \/ MenuTypedAhead
    \/ MenuCreateUser
    \/ MenuEditUser
    \/ MenuDeleteUser
    \/ MenuAttendance
    \/ AttRecord
    \/ AttFinish
    \/ MenuSyncAll
    \/ FleetAcquireFails
    \/ FleetFetchUsers
    \/ FleetFetchAtt
    \/ FleetStored
    \/ FleetRelease
    \/ FleetReport
    \/ MenuSyncReturn
    \/ MenuLiveCapture
    \/ LiveType
    \/ LiveIteration
    \/ LiveStreamEnds
    \/ MenuLiveReturn
    \/ MenuChangeIp
    \/ MenuExit

SpecSession == Init /\ [][NextSession]_vars

\* ------------------------------------------------------------- the claims

\* The loop is done with device i.
Finished(i) == i \in 1..Len(devices) /\ (i < didx \/ fpc = "done")

\* zk.connect() returned a session for device i.
Connected(i) == out[i].calls # <<>> /\ out[i].raised # "connect"

\* Device i returned records, which were handed to the store.
Fetched(i) == out[i].n > 0

RECURSIVE FetchedTotal(_)
FetchedTotal(n) ==
    IF n = 0 THEN 0
    ELSE FetchedTotal(n - 1) + (IF Fetched(n) THEN out[n].n ELSE 0)

\* C1: when a fleet sync ends, every device listed after one whose connect
\* failed has been attempted (connect was called on it), the success count
\* is the number of devices that returned records and the reported total is
\* the number of records they returned.
C1_FaultIsolation ==
    fpc = "done" =>
        /\ \A i \in 1..Len(devices) :
              out[i].raised = "connect" =>
                  \A j \in (i + 1)..Len(devices) : out[j].calls # <<>>
        /\ success_count = Cardinality({j \in 1..Len(devices) : Fetched(j)})
        /\ total = FetchedTotal(Len(devices))

C1_Witness ==
    /\ fpc = "done"
    /\ kind = "attendance"
    /\ Len(devices) = 2
    /\ out[1].raised = "connect"
    /\ out[2].raised = "none"
    /\ out[2].n = 3
    /\ success_count = 1
    /\ total = 3
    /\ attRows # {}

\* C2 (as claimed): once the loop is done with a device whose connect
\* succeeded, enable_device and then disconnect have been called on it.
C2_ReleasedOnEveryPath ==
    \A i \in 1..Len(devices) :
        (Finished(i) /\ Connected(i)) =>
            /\ Len(out[i].calls) >= 2
            /\ SubSeq(out[i].calls, Len(out[i].calls) - 1, Len(out[i].calls))
                   = <<"enable_device", "disconnect">>

\* C3 (as claimed): a device whose records were fetched and stored and whose
\* enable_device or disconnect then raised is not listed as failed.
C3_ReleaseFailureSwallowed ==
    \A i \in 1..Len(devices) :
        (/\ Finished(i)
         /\ Fetched(i)
         /\ faults = 0
         /\ out[i].raised \in {"enable_device", "disconnect"})
            => \A k \in 1..Len(failed_devices) : failed_devices[k] # Label(devices[i])

\* The raw record has no user_id, or one that is empty once trimmed.
UserIdMissingOrBlank(att) == "user_id" \notin att.has \/ Strip(att.user_id) = <<>>

\* The rows the first n records of a list normalise to.
RowsOf(atts, n, ip, udict) ==
    {AttNormalize(atts[i], ip, udict).row :
        i \in {j \in 1..n : AttNormalize(atts[j], ip, udict).kind = "row"}}

\* The number of the first n records of a list that normalise to a row.
RowCount(atts, n) ==
    Cardinality({j \in 1..n : AttNormalize(atts[j], "", EmptyDict).kind = "row"})

\* C4: saving the list and device of the attendance save before it (which
\* ended without a failed write) leaves table attendance exactly as that
\* first save left it, during and after the second save, whatever name index
\* the second save is given.
C4_AttendanceIdempotent == repeat => attRows = base

C4_Witness ==
    /\ repeat
    /\ pc = "idle"
    /\ ev.kind = "write_ok"
    /\ attRows # {}
    /\ \E i \in 1..Len(ev.chunk) : ev.chunk[i] \notin attRows

\* C5 (as claimed): right after a user save that succeeded, every
\* (device_ip, uid) of its batch has exactly one row in table users, and that
\* row is the last row of the batch with that key.
C5_UserSupersede ==
    ev.kind = "users_ok" =>
        \A i \in 1..Len(ev.chunk) :
            LET last == CHOOSE j \in 1..Len(ev.chunk) :
                            /\ UserKey(ev.chunk[j]) = UserKey(ev.chunk[i])
                            /\ \A k \in (j + 1)..Len(ev.chunk) :
                                   UserKey(ev.chunk[k]) # UserKey(ev.chunk[i])
            IN  {q \in userRows : UserKey(q) = UserKey(ev.chunk[i])} = {ev.chunk[last]}

\* C6 (as claimed): the loop iteration over a record whose user_id is missing
\* or blank adds one to the skip tally and changes neither the inserted
\* tally, nor the error tally, nor the pending batch, nor the table.
C6_SkipLaw ==
    [][(/\ pc = "att_loop"
        /\ idx <= Len(attendances)
        /\ UserIdMissingOrBlank(attendances[idx]))
       => (/\ skipped' = skipped + 1
           /\ inserted' = inserted
           /\ errors' = errors
           /\ batch' = batch
           /\ attRows' = attRows)]_vars

\* C7 (as claimed): no two rows of attendance share (device_ip, user_id,
\* timestamp) and no two rows of users share (device_ip, uid).
C7_KeysUnique ==
    /\ \A r, q \in attRows : AttKey(r) = AttKey(q) => r = q
    /\ \A r, q \in userRows : UserKey(r) = UserKey(q) => r = q

\* C8: a write of a chunk, failed or not, leaves every row that was in table
\* attendance before it in the table, unchanged; a row of the chunk whose key
\* was taken is not stored.
C8_AttendanceImmutable ==
    ev.kind \in {"write_ok", "write_failed"} =>
        /\ ev.before \subseteq attRows
        /\ \A i \in 1..Len(ev.chunk) :
              (\E q \in ev.before : AttKey(q) = AttKey(ev.chunk[i]) /\ q # ev.chunk[i])
                  => ev.chunk[i] \notin attRows

C8_Witness ==
    /\ ev.kind = "write_ok"
    /\ \E i \in 1..Len(ev.chunk), q \in ev.before :
          /\ AttKey(q) = AttKey(ev.chunk[i])
          /\ q.uid # ev.chunk[i].uid
          /\ q.name # ev.chunk[i].name
          /\ q.status # ev.chunk[i].status
          /\ q.punch # ev.chunk[i].punch

\* C9: a step in which a chunk write fails leaves the inserted tally as it
\* was, adds the number of rows of that chunk to the error tally and does not
\* end the loop; and when the save returns, every record of the list has been
\* tallied, so every chunk after the failed one was handed to the store.
C9_ChunkFaultContained ==
    [][/\ (pc = "att_loop" /\ faults' = faults + 1)
           => /\ inserted' = inserted
              /\ errors' = errors + (IF idx <= Len(attendances)
                                     THEN Len(batch) + 1 ELSE Len(batch))
              /\ IF idx <= Len(attendances)
                 THEN pc' = "att_loop" /\ idx' = idx + 1 /\ batch' = <<>>
                 ELSE pc' = "idle"
       /\ (pc = "att_loop" /\ pc' = "idle")
           => /\ inserted' + errors' + skipped' = Len(attendances)
              /\ inserted' + errors' - RecordErrors(attendances)
                     = RowCount(attendances, Len(attendances))]_vars

C9_Witness ==
    /\ pc = "idle"
    /\ faults = 1
    /\ errors = ChunkSize
    /\ inserted = 1
    /\ ev.kind = "write_ok"

\* C10 (as claimed): while records of the list are still to be normalised,
\* nothing of the list has reached table attendance.
C10_WholeFetchFirst ==
    (pc = "att_loop" /\ idx <= Len(attendances)) => attRows = base

\* C10 (amended): every row the save has added comes from a record it has
\* normalised, fewer than ChunkSize rows are pending between iterations, and
\* rows are added while records are still to be normalised only once
\* ChunkSize of the records before them have been normalised to rows.
C10_ChunkedNormalizeFirst ==
    pc = "att_loop" =>
        /\ attRows \ base \subseteq RowsOf(attendances, idx - 1, device_ip, users_dict)
        /\ Len(batch) < ChunkSize
        /\ (idx <= Len(attendances) /\ attRows # base)
              => RowCount(attendances, idx - 1) >= ChunkSize

C10_Witness ==
    /\ pc = "att_loop"
    /\ idx <= Len(attendances)
    /\ attRows # base
    /\ ev.kind = "write_ok"

\* The character the next read of the keyboard hands out is a quit key.
QuitPending ==
    IF stdinbuf # <<>> THEN QuitKey(Head(stdinbuf))
    ELSE tty # <<>> /\ QuitKey(Head(tty))

\* The events (not timeouts) among the elements of a sequence.
RealCount(seq) == Cardinality({i \in 1..Len(seq) : ~IsTimeout(seq[i])})

\* C11: in live capture the keyboard is polled only inside an iteration, at
\* most once, and every iteration that Ctrl-C does not cut short polls it
\* exactly once, before the element is counted or printed; in the iteration
\* whose poll reads a quit key the element pulled is neither printed nor
\* counted and the capture returns (it does not fail) with the total printed,
\* equal to the count before that iteration; and once the capture has
\* returned nothing more is pulled, printed or counted.
C11_QuitPolledEachIteration ==
    [][/\ polls' \in {polls, polls + 1}
       /\ (polls' = polls + 1) => (pulled' # pulled)
       /\ (pulled' # pulled /\ lend' # "interrupt") => (polls' = polls + 1)
       /\ (shown' # shown \/ captured_events' # captured_events)
             => (polls' = polls + 1)
       /\ (/\ lpc = "capture"
           /\ polls' = polls + 1
           /\ QuitKey(Poll(platform, tty, stdinbuf).ch))
             => /\ shown' = shown
                /\ captured_events' = captured_events
                /\ lpc' = "returned"
                /\ lend' \in {"quit", "interrupt"}
                /\ report' = captured_events
       /\ (lpc = "returned")
             => /\ pulled' = pulled
                /\ shown' = shown
                /\ captured_events' = captured_events
                /\ report' = report]_vars

C11_Witness ==
    /\ lpc = "returned"
    /\ lend = "quit"
    /\ Len(pulled) = 3
    /\ ~IsTimeout(pulled[3])
    /\ polls = 3
    /\ Len(shown) = 1
    /\ report = 1

\* C12 (as claimed): in live capture the count is at every point the number
\* of rows printed, every row printed is the row of an event, numbered in
\* order, and the count is the number of events among the elements
\* processed; so when the stream yields timeouts, then one event, then an
\* element at whose poll the quit key is read, the total printed is 1.
C12_TimeoutsNotCounted ==
    /\ captured_events = Len(shown)
    /\ counter = captured_events
    /\ \A i \in 1..Len(shown) : shown[i].counter = i
    /\ captured_events \in {RealCount(pulled),
                            RealCount(SubSeq(pulled, 1, Len(pulled) - 1))}
    /\ lend \in {"none", "exhausted", "interrupt"} => captured_events = RealCount(pulled)
    /\ report # -1 => report = captured_events
    /\ (/\ lend = "quit"
        /\ Len(pulled) >= 2
        /\ ~IsTimeout(pulled[Len(pulled) - 1])
        /\ \A i \in 1..(Len(pulled) - 2) : IsTimeout(pulled[i]))
          => report = 1

\* C13 (as claimed): while the capture runs and a quit key is the next
\* character to be read from the keyboard, the next element the stream
\* yields ends the capture.
C13_QuitEndsCapture ==
    [][(/\ lpc = "capture"
        /\ QuitPending
        /\ pulled' # pulled)
          => lpc' # "capture"]_vars

\* C14 (as claimed): every row of both tables has an integer uid (for a row
\* of users, whose uid is stored as the device gave it: a value int() accepts).
C14_UidInteger ==
    /\ \A r \in attRows : r.uid \in Nat
    /\ \A r \in userRows : r.uid \in DOMAIN IntLiteral

\* C15 (as claimed): no row of users has an empty user_id.
C15_UserIdMandatory == \A r \in userRows : r.user_id # <<>>

\* A user of the list was put in the index under the key.
KeyPresent(users, key) ==
    \E i \in 1..Len(users) : StrOfUid(users[i].uid) = key \/ users[i].user_id = key

\* The name the index holds under a key it has: that of the last user of the
\* list with that key.
NameUnder(users, key) ==
    LET hits == {i \in 1..Len(users) :
                    StrOfUid(users[i].uid) = key \/ users[i].user_id = key}
        last == CHOOSE i \in hits : \A j \in hits : j <= i
    IN  OrEmpty(users[last].name)

\* The index holds a non-empty name under the key.
Named(users, key) == KeyPresent(users, key) /\ NameUnder(users, key) # ""

\* C16 (as claimed): a look-up returns the name under the uid key if the
\* index has that key, otherwise the name under the user_id key, and the
\* empty string only when the index has neither key.
C16_ResolverAsClaimed ==
    resolved.asked =>
        LET k1 == DecStr(resolved.uid)
            k2 == resolved.user_id
        IN  /\ resolved.name =
                  IF KeyPresent(rusers, k1) THEN NameUnder(rusers, k1)
                  ELSE IF KeyPresent(rusers, k2) THEN NameUnder(rusers, k2)
                  ELSE ""
            /\ resolved.name = "" => (~KeyPresent(rusers, k1) /\ ~KeyPresent(rusers, k2))

\* C16 (amended): a look-up returns the name under the uid key if the index
\* holds a non-empty name there, otherwise the name under the user_id key if
\* the index has that key, otherwise the empty string; it returns the empty
\* string exactly when the index holds a non-empty name under neither key.
C16_ResolverFallback ==
    resolved.asked =>
        LET k1 == DecStr(resolved.uid)
            k2 == resolved.user_id
        IN  /\ resolved.name =
                  IF Named(rusers, k1) THEN NameUnder(rusers, k1)
                  ELSE IF KeyPresent(rusers, k2) THEN NameUnder(rusers, k2)
                  ELSE ""
            /\ resolved.name = "" <=> (~Named(rusers, k1) /\ ~Named(rusers, k2))

C16_Witness ==
    /\ resolved.asked
    /\ KeyPresent(rusers, DecStr(resolved.uid))
    /\ ~Named(rusers, DecStr(resolved.uid))
    /\ resolved.name = "Ann"

\* The records of a list that the loop skips.
SkipCount(atts) ==
    Cardinality({i \in 1..Len(atts) : AttNormalize(atts[i], "", EmptyDict).kind = "skip"})

\* Two records of the list normalise to rows with the same key.
HasDuplicateKey(atts) ==
    \E i, j \in 1..Len(atts) :
        /\ i < j
        /\ AttNormalize(atts[i], "", EmptyDict).kind = "row"
        /\ AttNormalize(atts[j], "", EmptyDict).kind = "row"
        /\ AttKey(AttNormalize(atts[i], "", EmptyDict).row)
               = AttKey(AttNormalize(atts[j], "", EmptyDict).row)

\* C17: when an attendance save without a failed write has returned, table
\* attendance holds exactly one row for every key the records of the list
\* normalise to, also for a key two records of the list share; the skip tally
\* counts only the records without a user_id or timestamp and the error tally
\* only the records whose normalisation raised, so a record whose key was
\* taken is in neither.
C17_DuplicateIgnored ==
    (pc = "idle" /\ attendances # <<>> /\ faults = 0) =>
        /\ \A r \in RowsOf(attendances, Len(attendances), device_ip, users_dict) :
              Cardinality({q \in attRows : AttKey(q) = AttKey(r)}) = 1
        /\ skipped = SkipCount(attendances)
        /\ errors = RecordErrors(attendances)

C17_Witness ==
    /\ pc = "idle"
    /\ faults = 0
    /\ HasDuplicateKey(attendances)
    /\ Len(attendances) = 3
    /\ skipped = 0
    /\ errors = 0
    /\ Cardinality({q \in attRows : q.device_ip = device_ip}) = 2

\* C18 (as claimed): when an attendance save without a failed write has
\* returned, its inserted tally is the number of rows it added to the table.
C18_InsertedIsRowsAdded ==
    (pc = "idle" /\ attendances # <<>> /\ faults = 0) =>
        inserted = Cardinality(attRows \ base)

\* The keys of the rows of the two tables.
AttKeysOf(rows) == {AttKey(r) : r \in rows}
UserKeysOf(rows) == {UserKey(r) : r \in rows}

\* C19: no step of the program (start with schema initialization, opening a
\* session with or without a user save, attendance save, creating, editing
\* or deleting a user on the device, a fleet sync of users or of attendance
\* and a live capture called from the menu, leaving) removes a key from table
\* attendance or from table users, and the start of the program leaves every
\* row of both tables as it was.
C19_NoKeyDisappears ==
    [][/\ AttKeysOf(attRows) \subseteq AttKeysOf(attRows')
       /\ UserKeysOf(userRows) \subseteq UserKeysOf(userRows')
       /\ (spc = "off" /\ spc' # "off")
             => (attRows' = attRows /\ userRows' = userRows)]_vars

\* The program was started again on a database that holds attendance rows
\* and the row of a user who was deleted on the device since.
C19_Witness ==
    /\ ev.kind = "init_database"
    /\ spc = "menu"
    /\ attRows # {}
    /\ \E r \in userRows :
          /\ r.device_ip = conn_ip
          /\ \A i \in 1..Len(session_users) : session_users[i].uid # r.uid

\* The chunk writes of a save of the list: one per ChunkSize rows and one for
\* the rest.
ChunkWrites(atts) == (RowCount(atts, Len(atts)) + ChunkSize - 1) \div ChunkSize

\* C20: an attendance save sets synchronous OFF first; while its loop runs
\* the connection has seen nothing but that and chunk writes (synchronous is
\* not restored between chunks); and when it has returned, what the
\* connection saw is OFF, every chunk write of the list, then commit,
\* synchronous FULL and close, in that order.
C20_DurabilityRestored ==
    /\ pc = "att_loop" =>
          /\ synchronous = "OFF"
          /\ trace # <<>>
          /\ trace[1] = "OFF"
          /\ \A i \in 2..Len(trace) : trace[i] = "write"
    /\ (pc = "idle" /\ trace # <<>>) =>
          /\ Len(trace) = ChunkWrites(attendances) + 4
          /\ trace[1] = "OFF"
          /\ \A i \in 2..(Len(trace) - 3) : trace[i] = "write"
          /\ SubSeq(trace, Len(trace) - 2, Len(trace)) = <<"commit", "FULL", "close">>
          /\ synchronous = "closed"

C20_Witness ==
    /\ pc = "idle"
    /\ trace = <<"OFF", "write", "write", "commit", "FULL", "close">>
    /\ faults = 1
    /\ ev.kind = "write_ok"


\* C21: no failure of a device call or of a store write leaves a fleet sync:
\* the sync never ends by an exception, and until its report is printed it
\* always has a next step to take.
C21_NothingEscapes ==
    /\ fpc # "escaped"
    /\ fpc \in {"device", "saving", "release"} => ENABLED NextFleet

\* Witness: a report printed after a connect failure on one device and, on
\* another, a failed store write followed by a failing disconnect.
C21_Witness ==
    /\ fpc = "done"
    /\ faults > 0
    /\ \E i, j \in 1..Len(devices) :
          /\ out[i].raised = "connect"
          /\ out[j].raised = "disconnect"


\* C22: when an attendance save is interrupted while it writes a chunk,
\* every row that was in table attendance before that write is still there
\* unchanged, so is a row for every record of the chunks written before it
\* (when none of those writes failed), and the only rows missing are rows of
\* the chunk in flight.
C22_EarlierChunksSurvive ==
    [][(pc = "att_loop" /\ pc' = "interrupted")
          => /\ attRows \subseteq attRows'
             /\ faults = 0 =>
                   \A r \in RowsOf(attendances, idx - 1, device_ip, users_dict) :
                       (\A i \in 1..Len(batch) : batch[i] # r)
                           => \E q \in attRows' : AttKey(q) = AttKey(r)
             /\ attRows' \ attRows \subseteq {ev'.chunk[i] : i \in 1..Len(ev'.chunk)}
             /\ attRows' \subseteq ExecuteManyAtt(attRows, ev'.chunk)]_vars

\* Witness: an interruption after an earlier chunk added rows, which loses a
\* row of the chunk in flight.
C22_Witness ==
    /\ pc = "interrupted"
    /\ ev.before # base
    /\ \E i \in 1..Len(ev.chunk) :
          \A q \in attRows : AttKey(q) # AttKey(ev.chunk[i])


\* The class save_users_to_db stores for a raw privilege value.
ClassOf(raw) == PrivilegeOf([UserAnn EXCEPT !.privilege = raw])

\* The raw values a comparison with threshold t puts on the Admin side, when
\* Admin is the upper side (up) or the lower side.
AdminSide(t, up) == {q \in RawPrivileges : IF up THEN q >= t ELSE q <= t}

\* C23 (as claimed): the stored privilege is Admin or User and there is a
\* threshold such that the raw values on one of its sides are exactly those
\* stored as Admin.
C23_ThresholdClass ==
    classified.asked =>
        /\ classified.row.privilege \in {"Admin", "User"}
        /\ \E t \in 0..(MaxPrivilege + 1), up \in BOOLEAN :
              /\ classified.row.privilege = "Admin" <=> classified.raw \in AdminSide(t, up)
              /\ \A q \in RawPrivileges : ClassOf(q) = "Admin" <=> q \in AdminSide(t, up)

\* C23 (amended): the stored privilege is Admin exactly when the raw value
\* equals const.USER_ADMIN and User for every other raw value, whichever
\* side of it that value lies on.
C23_EqualityClass ==
    classified.asked =>
        /\ classified.row.privilege \in {"Admin", "User"}
        /\ classified.row.privilege = "Admin" <=> classified.raw = USER_ADMIN

\* Witness: a row built from a raw privilege above const.USER_ADMIN, stored
\* as User.
C23_Witness ==
    /\ classified.asked
    /\ classified.raw > USER_ADMIN
    /\ classified.row.privilege = "User"


\* C26: the step in which the operator leaves an open session by option 0
\* ends with the device enabled again and the session disconnected.
C26_EnabledOnExit ==
    [][MenuExit => conn' = "released"]_vars


\* Device i is listed among the failed devices.
ListedFailed(i) == \E k \in 1..Len(failed_devices) : failed_devices[k] = Label(devices[i])

\* C24: when a fleet sync ends, every device of the list was either counted
\* as a success (it returned records) or is listed as failed, never both and
\* never neither, and success count + failed devices = devices of the list.
C24_AccountedOnce ==
    fpc = "done" =>
        /\ \A i \in 1..Len(devices) : Fetched(i) <=> ~ListedFailed(i)
        /\ success_count + Len(failed_devices) = Len(devices)

\* C25: a step of a fleet sync in which the store write of the device's
\* records fails (the user batch is not written; or the attendance save
\* returns with its last write failed and nothing inserted) does not count
\* the device as a success and adds nothing to the reported total.
C25_SuccessMeansStored ==
    [][/\ (fpc = "device" /\ ev'.kind = "users_failed")
           => (success_count' = success_count /\ total' = total)
       /\ (fpc = "saving" /\ fpc' = "release" /\ ev.kind = "write_failed" /\ inserted = 0)
           => (success_count' = success_count /\ total' = total)]_vars


\* C27: every step of live capture that pulls an event (not a timeout) from
\* the device stream prints one more row and counts one more event, also
\* when the poll of that iteration reads the quit key.
C27_NoPulledEventDropped ==
    [][(lpc = "capture" /\ pulled' # pulled /\ ~IsTimeout(pulled'[Len(pulled')]))
          => /\ Len(shown') = Len(shown) + 1
             /\ captured_events' = captured_events + 1]_vars


\* C28: while an attendance save runs, every record it has gone through is
\* in exactly one of the three tallies or in the pending batch; and once it
\* has returned, inserted + skipped + errors is the number of records of the
\* list.
C28_TalliesCoverInput ==
    /\ pc = "att_loop" => inserted + skipped + errors + Len(batch) = idx - 1
    /\ (pc = "idle" /\ attendances # <<>>)
          => inserted + skipped + errors = Len(attendances)

\* Witness: a save that returned after a skipped record, a record error and
\* a failed chunk write.
C28_Witness ==
    /\ pc = "idle"
    /\ skipped = 1
    /\ RecordErrors(attendances) = 1
    /\ ev.kind = "write_failed"
    /\ errors = 2


\* The rows of a table that belong to other devices than ip.
OtherRows(rows, ip) == {r \in rows : r.device_ip # ip}

\* C29: a step that changes table attendance leaves every row of a device
\* other than the one being saved as it was and adds none for it; a step that
\* changes table users writes a batch of one device and leaves the rows of
\* every other device as they were.
C29_OtherDevicesUntouched ==
    [][/\ attRows' # attRows
           => OtherRows(attRows', device_ip) = OtherRows(attRows, device_ip)
       /\ userRows' # userRows
           => \E ip \in {ev'.chunk[i].device_ip : i \in 1..Len(ev'.chunk)} :
                 /\ \A i \in 1..Len(ev'.chunk) : ev'.chunk[i].device_ip = ip
                 /\ OtherRows(userRows', ip) = OtherRows(userRows, ip)]_vars

\* Witness: a user save for one device wrote a uid that another device
\* already had a row for; that row is still there.
C29_Witness ==
    /\ ev.kind = "users_ok"
    /\ \E old \in ev.before, new \in userRows :
          /\ old.device_ip # new.device_ip
          /\ old.uid = new.uid
          /\ new \notin ev.before
          /\ old \in userRows


\* C30: the bulk export is never ended by an exception; it has written one
\* row for each device entry it has gone through, in list order, and when it
\* is done one row for each entry of the list; and the row of an entry with
\* no ip, or with a device call that raised, has a non-empty error field.
C30_OneRowPerEntry ==
    /\ epc # "raised"
    /\ Len(csv_rows) = Len(export_out)
    /\ epc = "exported" => Len(csv_rows) = Len(export_devices)
    /\ \A i \in 1..Len(csv_rows) :
          /\ csv_rows[i].device = export_devices[i]
          /\ (IpOf(export_devices[i]) = "" \/ export_out[i] # {})
                => csv_rows[i].error # ""

====
